---- MODULE Spec2Model ----
(***************************************************************************)
(* Model of cura/Machines/VariantManager.py: the variant lookup table      *)
(*   machine_definition_id -> variant_type -> variant_name -> ContainerNode*)
(* built by initialize() from the container registry's variant metadata    *)
(* and read by getVariantNode / getVariantNodes / getDefaultVariantNode.   *)
(*                                                                         *)
(* Python dicts are functions (their key order is not read by any method   *)
(* of the class, except the order of the variant types, which is kept in   *)
(* ALL_VARIANT_TYPES).  A Python value is a record: None, a ContainerNode, *)
(* a returned dict, or a raised exception.                                 *)
(***************************************************************************)
EXTENDS Integers, Sequences, FiniteSets, TLC

VARIABLES registry,                     \* metadata the container registry returns for type = "variant"
          added,                        \* number of variant containers ever added to the registry
          machine_to_variant_dict_map,  \* self._machine_to_variant_dict_map
          call,                         \* the last method called, with its arguments
          result                        \* what that call returned or raised

vars == <<registry, added, machine_to_variant_dict_map, call, result>>

----------------------------------------------------------------------------
(* Bounds *)

MaxRecords == 2
MaxRebuildRecords == 3

DefinitionIds == {"m1", "m2"}
VariantNames == {"A", "B"}
HardwareTypes == {"buildplate", "nozzle", "bogus"}
VariantIdNames == <<"v1", "v2", "v3", "v4", "v5", "v6">>

----------------------------------------------------------------------------
(* Python values *)

None == [none |-> TRUE]
Raise(exc) == [raised |-> exc]
ContainerNode(metadata) == [metadata |-> metadata]
ReturnDict(d) == [dict |-> d]
EmptyDict == [k \in {} |-> None]

DictPut(d, k, v) == [x \in (DOMAIN d) \cup {k} |-> IF x = k THEN v ELSE d[x]]
DictGet(d, k, default) == IF k \in DOMAIN d THEN d[k] ELSE default

----------------------------------------------------------------------------
(* class VariantType(Enum) *)

BUILD_PLATE == "VariantType.BUILD_PLATE"
NOZZLE == "VariantType.NOZZLE"
NoType == "None"

\* Variant: the nozzle bucket is searched first
ALL_VARIANT_TYPES_NozzleFirst == <<NOZZLE, BUILD_PLATE>>

ALL_VARIANT_TYPES == <<BUILD_PLATE, NOZZLE>>

\* Variant: an unknown value is taken for a nozzle instead of being rejected
VariantType_Lenient(value) ==
    IF value = "buildplate" THEN BUILD_PLATE ELSE NOZZLE

\* VariantType(value): the member with that value, ValueError for any other string
VariantType(value) ==
    CASE value = "buildplate" -> BUILD_PLATE
      [] value = "nozzle" -> NOZZLE
      [] OTHER -> "ValueError"

\* Variant: nothing is excluded
exclude_variant_id_list_Empty == {}

exclude_variant_id_list == {"empty_variant"}

----------------------------------------------------------------------------
(* initialize() *)

\* lines 66-69: the inner levels of a newly seen definition, one empty dict per variant type
NewVariantTypeDict ==
    [t \in {ALL_VARIANT_TYPES[i] : i \in 1..Len(ALL_VARIANT_TYPES)} |-> EmptyDict]

\* Variant: a duplicated name replaces the node instead of raising
InitializeStep_Overwrite(variant_metadata, m) ==
    IF variant_metadata.id \in exclude_variant_id_list
    THEN [map |-> m, result |-> None]
    ELSE LET variant_name == variant_metadata.name
             variant_definition == variant_metadata.definition
             m1 == IF variant_definition \notin DOMAIN m
                   THEN DictPut(m, variant_definition, NewVariantTypeDict)
                   ELSE m
             variant_type == VariantType(variant_metadata.hardware_type)
         IN IF variant_type = "ValueError"
            THEN [map |-> m1, result |-> Raise("ValueError")]
            ELSE [map |-> DictPut(m1, variant_definition,
                             DictPut(m1[variant_definition], variant_type,
                                 DictPut(m1[variant_definition][variant_type], variant_name,
                                         ContainerNode(variant_metadata)))),
                  result |-> None]

\* lines 60-79: the body of the loop for one record, on the map built so far;
\* result is None when the loop goes on to the next record
InitializeStep(variant_metadata, m) ==
    IF variant_metadata.id \in exclude_variant_id_list
    THEN [map |-> m, result |-> None]
    ELSE LET variant_name == variant_metadata.name
             variant_definition == variant_metadata.definition
             m1 == IF variant_definition \notin DOMAIN m
                   THEN DictPut(m, variant_definition, NewVariantTypeDict)
                   ELSE m
             variant_type == VariantType(variant_metadata.hardware_type)
         IN IF variant_type = "ValueError"
            THEN [map |-> m1, result |-> Raise("ValueError")]
            ELSE LET variant_dict == m1[variant_definition][variant_type] IN
                 IF variant_name \in DOMAIN variant_dict
                 THEN [map |-> m1, result |-> Raise("RuntimeError")]
                 ELSE [map |-> DictPut(m1, variant_definition,
                                  DictPut(m1[variant_definition], variant_type,
                                      DictPut(variant_dict, variant_name,
                                              ContainerNode(variant_metadata)))),
                       result |-> None]

\* line 59: the loop over variant_metadata_list from index i on; an exception ends it
RECURSIVE InitializeLoop(_, _, _)
InitializeLoop(variant_metadata_list, i, m) ==
    IF i > Len(variant_metadata_list) THEN [map |-> m, result |-> None]
    ELSE LET step == InitializeStep(variant_metadata_list[i], m) IN
         IF step.result # None THEN step
         ELSE InitializeLoop(variant_metadata_list, i + 1, step.map)

\* Variant: the loop fills the map of the previous call
initialize_NoClear(old_map, variant_metadata_list) ==
    InitializeLoop(variant_metadata_list, 1, old_map)

\* Variant: the map is built aside and installed only when the loop completes
initialize_Transactional(old_map, variant_metadata_list) ==
    LET out == InitializeLoop(variant_metadata_list, 1, EmptyDict) IN
    IF out.result = None THEN out ELSE [map |-> old_map, result |-> out.result]

\* line 55: the map is replaced by an empty one before the loop
initialize(old_map, variant_metadata_list) ==
    InitializeLoop(variant_metadata_list, 1, EmptyDict)

----------------------------------------------------------------------------
(* getVariantNode / getVariantNodes *)

\* lines 90-93: first bucket, in the order of the type dict, that holds the name
RECURSIVE SearchTypes(_, _, _)
SearchTypes(variant_type_dict, variant_name, i) ==
    IF i > Len(ALL_VARIANT_TYPES) THEN None
    ELSE LET variant_dict == variant_type_dict[ALL_VARIANT_TYPES[i]] IN
         IF variant_name \in DOMAIN variant_dict
         THEN variant_dict[variant_name]
         ELSE SearchTypes(variant_type_dict, variant_name, i + 1)

\* Variant: the given type is ignored and every bucket is searched
getVariantNode_IgnoresType(m, machine_definition_id, variant_name, variant_type) ==
    IF machine_definition_id \notin DOMAIN m
    THEN Raise("KeyError")
    ELSE SearchTypes(m[machine_definition_id], variant_name, 1)

\* lines 85-95; indexing the map with an unknown machine_definition_id raises KeyError
getVariantNode(m, machine_definition_id, variant_name, variant_type) ==
    IF variant_type = NoType
    THEN IF machine_definition_id \notin DOMAIN m
         THEN Raise("KeyError")
         ELSE SearchTypes(m[machine_definition_id], variant_name, 1)
    ELSE IF machine_definition_id \notin DOMAIN m
         THEN Raise("KeyError")
         ELSE DictGet(DictGet(m[machine_definition_id], variant_type, EmptyDict), variant_name, None)

\* Variant: an omitted type stands for the nozzles
getVariantNodes_DefaultNozzle(m, machine_definition_id, variant_type) ==
    ReturnDict(DictGet(DictGet(m, machine_definition_id, EmptyDict),
                       IF variant_type = NoType THEN NOZZLE ELSE variant_type, EmptyDict))

\* lines 97-100
getVariantNodes(m, machine_definition_id, variant_type) ==
    ReturnDict(DictGet(DictGet(m, machine_definition_id, EmptyDict), variant_type, EmptyDict))

----------------------------------------------------------------------------
(* getDefaultVariantNode *)

Absent == "<absent>"
FlagValues == {Absent, "True", "False"}

\* DefinitionContainer.getMetaDataEntry(key, default)
getMetaDataEntry(machine_definition, key, default) ==
    IF machine_definition[key] = Absent THEN default ELSE machine_definition[key]

\* UM.Util.parseBool
parseBool(value) == value \in {"True", "true", "Yes", "yes", "1"}

\* Variant: has_variants gates the build plates too
getDefaultVariantNode_OneFlag(m, machine_definition, variant_type) ==
    LET machine_definition_id == machine_definition.id
        preferred_variant_name ==
            IF parseBool(getMetaDataEntry(machine_definition, "has_variants", "False"))
            THEN IF variant_type = BUILD_PLATE
                 THEN getMetaDataEntry(machine_definition, "preferred_variant_buildplate_name", "None")
                 ELSE getMetaDataEntry(machine_definition, "preferred_variant_name", "None")
            ELSE "None"
    IN IF preferred_variant_name \notin {"None", ""}
       THEN getVariantNode(m, machine_definition_id, preferred_variant_name, variant_type)
       ELSE None

\* lines 105-119; None and "" are the falsy preferred names
getDefaultVariantNode(m, machine_definition, variant_type) ==
    LET machine_definition_id == machine_definition.id
        preferred_variant_name ==
            IF variant_type = BUILD_PLATE
            THEN IF parseBool(getMetaDataEntry(machine_definition, "has_variant_buildplates", "False"))
                 THEN getMetaDataEntry(machine_definition, "preferred_variant_buildplate_name", "None")
                 ELSE "None"
            ELSE IF parseBool(getMetaDataEntry(machine_definition, "has_variants", "False"))
                 THEN getMetaDataEntry(machine_definition, "preferred_variant_name", "None")
                 ELSE "None"
    IN IF preferred_variant_name \notin {"None", ""}
       THEN getVariantNode(m, machine_definition_id, preferred_variant_name, variant_type)
       ELSE None

\* The definition containers handed to getDefaultVariantNode: both preferred names
\* configured, under every combination of the two capability flags; and both flags
\* set, with the preferred names missing or empty
MachineDefinitions ==
    [id : DefinitionIds,
     has_variant_buildplates : FlagValues,
     has_variants : FlagValues,
     preferred_variant_buildplate_name : {"A"},
     preferred_variant_name : {"B"}]
    \cup
    {md \in [id : DefinitionIds,
              has_variant_buildplates : {"True"},
              has_variants : {"True"},
              preferred_variant_buildplate_name : {Absent, ""},
              preferred_variant_name : {Absent, ""}] :
        md.preferred_variant_buildplate_name = md.preferred_variant_name}

----------------------------------------------------------------------------
(* The state machine *)

\* The records the registry can get next: ids are unique in the registry and never reused,
\* except the reserved id of the empty variant
NextRecords ==
    [id : {VariantIdNames[added + 1]}
          \cup ({"empty_variant"} \ {registry[i].id : i \in 1..Len(registry)}),
     name : VariantNames,
     definition : DefinitionIds,
     hardware_type : HardwareTypes]

RemoveAt(s, i) == [j \in 1..(Len(s) - 1) |-> IF j < i THEN s[j] ELSE s[j + 1]]

Init ==
    /\ registry = <<>>
    /\ added = 0
    /\ machine_to_variant_dict_map = EmptyDict
    /\ call = [op |-> "__init__"]
    /\ result = None

\* The application adds a variant container to the registry
RegistryAddUpTo(limit) ==
    /\ added < limit
    /\ \E r \in NextRecords : registry' = Append(registry, r)
    /\ added' = added + 1
    /\ call' = [op |-> "registry_add"]
    /\ result' = None
    /\ UNCHANGED machine_to_variant_dict_map

RegistryAdd == RegistryAddUpTo(MaxRecords)

RegistryAddRebuild == RegistryAddUpTo(MaxRebuildRecords)

\* The application removes a variant container from the registry
RegistryRemove ==
    /\ \E i \in 1..Len(registry) : registry' = RemoveAt(registry, i)
    /\ call' = [op |-> "registry_remove"]
    /\ result' = None
    /\ UNCHANGED <<added, machine_to_variant_dict_map>>

Initialize ==
    LET out == initialize(machine_to_variant_dict_map, registry) IN
    /\ machine_to_variant_dict_map' = out.map
    /\ result' = out.result
    /\ call' = [op |-> "initialize"]
    /\ UNCHANGED <<registry, added>>

QueryTypes == {BUILD_PLATE, NOZZLE, NoType}

GetVariantNode ==
    \E d \in DefinitionIds, n \in VariantNames, t \in QueryTypes :
        /\ call' = [op |-> "getVariantNode", machine_definition_id |-> d,
                    variant_name |-> n, variant_type |-> t]
        /\ result' = getVariantNode(machine_to_variant_dict_map, d, n, t)
        /\ UNCHANGED <<registry, added, machine_to_variant_dict_map>>

GetVariantNodes ==
    \E d \in DefinitionIds, t \in QueryTypes :
        /\ call' = [op |-> "getVariantNodes", machine_definition_id |-> d, variant_type |-> t]
        /\ result' = getVariantNodes(machine_to_variant_dict_map, d, t)
        /\ UNCHANGED <<registry, added, machine_to_variant_dict_map>>

GetDefaultVariantNode ==
    \E md \in MachineDefinitions, t \in {BUILD_PLATE, NOZZLE} :
        /\ call' = [op |-> "getDefaultVariantNode", machine_definition |-> md, variant_type |-> t]
        /\ result' = getDefaultVariantNode(machine_to_variant_dict_map, md, t)
        /\ UNCHANGED <<registry, added, machine_to_variant_dict_map>>

\* The lookup table and its readers, over a registry that grows
Next == RegistryAdd \/ Initialize \/ GetVariantNode \/ GetVariantNodes

Spec == Init /\ [][Next]_vars

\* Rebuilds of the table over a registry that gains and loses containers
NextRebuild == RegistryAddRebuild \/ RegistryRemove \/ Initialize

SpecRebuild == Init /\ [][NextRebuild]_vars

\* The default variant of a machine definition
NextDefault == RegistryAdd \/ Initialize \/ GetDefaultVariantNode

SpecDefault == Init /\ [][NextDefault]_vars

----------------------------------------------------------------------------
(* Properties *)

IsExcluded(r) == r.id = "empty_variant"
Indexed(list) == {i \in 1..Len(list) : ~IsExcluded(list[i])}
KnownType(r) == r.hardware_type \in {"buildplate", "nozzle"}
ExpectedType(r) == IF r.hardware_type = "buildplate" THEN BUILD_PLATE ELSE NOZZLE
SameTriple(r1, r2) ==
    /\ r1.definition = r2.definition
    /\ r1.hardware_type = r2.hardware_type
    /\ r1.name = r2.name

\* the records that repeat the triple of an earlier record, and those of unknown type
Collisions(list) ==
    {j \in Indexed(list) : \E i \in Indexed(list) : i < j /\ SameTriple(list[i], list[j])}
BadTypes(list) == {i \in Indexed(list) : ~KnownType(list[i])}
Least(S) == CHOOSE x \in S : \A y \in S : x <= y

\* the records of a list with a given definition and variant type
Bucket(list, d, t) ==
    {i \in Indexed(list) : /\ list[i].definition = d
                           /\ KnownType(list[i])
                           /\ ExpectedType(list[i]) = t}

\* the table that holds every non-excluded record of a list under its triple
ExpectedMap(list) ==
    [d \in {list[i].definition : i \in Indexed(list)} |->
        [t \in {BUILD_PLATE, NOZZLE} |->
            [n \in {list[i].name : i \in Bucket(list, d, t)} |->
                ContainerNode(list[CHOOSE i \in Bucket(list, d, t) : list[i].name = n])]]]

ExcludedNodes ==
    {ContainerNode(r) : r \in [id : {"empty_variant"}, name : VariantNames,
                               definition : DefinitionIds, hardware_type : HardwareTypes]}

InitializeDone == call.op = "initialize"
InitializeOk == call.op = "initialize" /\ result = None

\* the build-plate record of a definition and name if there is one, else record i
FirstInTypeOrder(list, i) ==
    LET bp == {k \in Bucket(list, list[i].definition, BUILD_PLATE) : list[k].name = list[i].name}
    IN IF bp # {} THEN CHOOSE k \in bp : TRUE ELSE i

\* C1 as stated: right after a successful initialize(), getVariantNode for the
\* definition and name of a non-excluded record returns that record's node, both
\* with the record's type given and with the type omitted.
C1_Original ==
    [][(InitializeOk /\ call'.op = "getVariantNode") =>
        \A i \in Indexed(registry) :
            (/\ registry[i].definition = call'.machine_definition_id
             /\ registry[i].name = call'.variant_name
             /\ call'.variant_type \in {ExpectedType(registry[i]), NoType})
            => result' = ContainerNode(registry[i])]_vars

\* C1 amended: with the record's type given the lookup returns that record's node;
\* with the type omitted it returns that record's node unless a non-excluded
\* build-plate record has the same definition and name, and then that record's node.
C1_Amended ==
    [][(InitializeOk /\ call'.op = "getVariantNode") =>
        \A i \in Indexed(registry) :
            (/\ registry[i].definition = call'.machine_definition_id
             /\ registry[i].name = call'.variant_name)
            => /\ call'.variant_type = ExpectedType(registry[i])
                    => result' = ContainerNode(registry[i])
               /\ call'.variant_type = NoType
                    => result' = ContainerNode(registry[FirstInTypeOrder(registry, i)])]_vars

C1_Witness ==
    /\ call.op = "getVariantNode"
    /\ call.variant_type = NoType
    /\ \E i, j \in Indexed(registry) :
        /\ registry[i].hardware_type = "buildplate"
        /\ registry[j].hardware_type = "nozzle"
        /\ registry[i].definition = registry[j].definition
        /\ registry[i].name = registry[j].name
        /\ call.machine_definition_id = registry[j].definition
        /\ call.variant_name = registry[j].name
        /\ result = ContainerNode(registry[i])

\* C2: right after a successful initialize(), a query for a machine definition id
\* that is not a key of the table returns the absence value (None, or an empty
\* mapping for getVariantNodes) and never raises.
C2_UnknownMachineNotFound ==
    [][InitializeOk =>
        /\ (call'.op = "getVariantNode"
            /\ call'.machine_definition_id \notin DOMAIN machine_to_variant_dict_map)
           => result' = None
        /\ (call'.op = "getVariantNodes"
            /\ call'.machine_definition_id \notin DOMAIN machine_to_variant_dict_map)
           => result' = ReturnDict(EmptyDict)
        /\ (call'.op = "getDefaultVariantNode"
            /\ call'.machine_definition.id \notin DOMAIN machine_to_variant_dict_map)
           => result' = None]_vars

\* C3 as stated: initialize() raises the duplicate error whenever two non-excluded
\* records share a (definition, hardware type, name) triple, and completes when no
\* two do and every hardware type is known.
C3_Original ==
    InitializeDone =>
        /\ Collisions(registry) # {} => result = Raise("RuntimeError")
        /\ (Collisions(registry) = {} /\ BadTypes(registry) = {}) => result = None

\* C3 amended: with two non-excluded records sharing a triple initialize() never
\* completes: it raises the duplicate error, unless a non-excluded record of unknown
\* hardware type comes before the first record that repeats a triple, and then the
\* conversion error of that record; with no shared triple and only known types it
\* completes.
C3_Amended ==
    InitializeDone =>
        /\ Collisions(registry) # {} =>
             result = IF \E b \in BadTypes(registry) : b < Least(Collisions(registry))
                      THEN Raise("ValueError")
                      ELSE Raise("RuntimeError")
        /\ (Collisions(registry) = {} /\ BadTypes(registry) = {}) => result = None

C3_Witness ==
    /\ InitializeDone
    /\ Collisions(registry) # {}
    /\ \E b \in BadTypes(registry) : b > Least(Collisions(registry))
    /\ result = Raise("RuntimeError")

\* C4: a record with the id "empty_variant" is never in the table nor in a query
\* result, does not create the entry of its machine definition, and does not
\* count for the duplicate error.
C4_ExcludedNeverIndexed ==
    /\ \A d \in DOMAIN machine_to_variant_dict_map :
        \A t \in DOMAIN machine_to_variant_dict_map[d] :
            \A n \in DOMAIN machine_to_variant_dict_map[d][t] :
                machine_to_variant_dict_map[d][t][n] \notin ExcludedNodes
    /\ result \notin ExcludedNodes
    /\ call.op = "getVariantNodes" =>
        \A n \in DOMAIN result.dict : result.dict[n] \notin ExcludedNodes
    /\ \A md \in MachineDefinitions, t \in {BUILD_PLATE, NOZZLE} :
        getDefaultVariantNode(machine_to_variant_dict_map, md, t) \notin ExcludedNodes
    /\ InitializeDone =>
        /\ DOMAIN machine_to_variant_dict_map
             \subseteq {registry[i].definition : i \in Indexed(registry)}
        /\ result = Raise("RuntimeError") => Collisions(registry) # {}

C4_Witness ==
    /\ InitializeOk
    /\ machine_to_variant_dict_map # EmptyDict
    /\ \E i \in 1..Len(registry) :
        /\ IsExcluded(registry[i])
        /\ registry[i].definition \notin DOMAIN machine_to_variant_dict_map

\* the flag and the preferred name that belong to a variant type
RelevantFlag(md, t) ==
    IF t = BUILD_PLATE THEN md.has_variant_buildplates ELSE md.has_variants
RelevantName(md, t) ==
    IF t = BUILD_PLATE THEN md.preferred_variant_buildplate_name ELSE md.preferred_variant_name

\* C5: getDefaultVariantNode returns None when the flag of the type is false or
\* absent, whatever the preferred name and the table; with the flag true and a
\* preferred name set it returns what getVariantNode returns for that name and type.
C5_DefaultGatedByFlag ==
    call.op = "getDefaultVariantNode" =>
        LET md == call.machine_definition
            t == call.variant_type
        IN /\ RelevantFlag(md, t) \in {Absent, "False"} => result = None
           /\ (RelevantFlag(md, t) = "True" /\ RelevantName(md, t) \notin {Absent, ""})
                => result = getVariantNode(machine_to_variant_dict_map, md.id,
                                           RelevantName(md, t), t)

C5_Witness ==
    /\ call.op = "getDefaultVariantNode"
    /\ RelevantFlag(call.machine_definition, call.variant_type) = "False"
    /\ call.machine_definition.id \in DOMAIN machine_to_variant_dict_map
    /\ RelevantName(call.machine_definition, call.variant_type)
         \in DOMAIN machine_to_variant_dict_map[call.machine_definition.id][call.variant_type]
    /\ result = None

\* C6: a successful initialize() leaves the table that the registry contents of
\* that call determine, whatever the table was before.
C6_RebuiltWholesale ==
    InitializeOk => machine_to_variant_dict_map = ExpectedMap(registry)

C6_Witness ==
    /\ InitializeOk
    /\ added > Len(registry)
    /\ machine_to_variant_dict_map # EmptyDict

\* C7: right after a successful initialize(), getVariantNodes returns a mapping
\* whose keys are the names of the non-excluded records of that definition and
\* type, and an empty mapping for a definition not indexed or an omitted type.
C7_VariantNodesKeys ==
    [][(InitializeOk /\ call'.op = "getVariantNodes") =>
        DOMAIN result'.dict =
            {registry[i].name :
                i \in Bucket(registry, call'.machine_definition_id, call'.variant_type)}]_vars

C7_Witness ==
    /\ call.op = "getVariantNodes"
    /\ DOMAIN result.dict = {"A", "B"}

\* C8: with a non-excluded record of unknown hardware type in the registry,
\* initialize() raises; it never completes.
C8_UnknownTypeRejected ==
    (InitializeDone /\ BadTypes(registry) # {}) =>
        result \in {Raise("ValueError"), Raise("RuntimeError")}

C8_Witness ==
    /\ InitializeDone
    /\ result = Raise("ValueError")
    /\ \E i \in Indexed(registry) : KnownType(registry[i])

\* C9: when initialize() raises the duplicate error the table holds the
\* non-excluded records before the record that repeats a triple, and nothing else.
C9_PartialOnDuplicate ==
    (InitializeDone /\ result = Raise("RuntimeError")) =>
        /\ Collisions(registry) # {}
        /\ machine_to_variant_dict_map =
             ExpectedMap(SubSeq(registry, 1, Least(Collisions(registry)) - 1))

C9_Witness ==
    /\ InitializeDone
    /\ result = Raise("RuntimeError")
    /\ added > Len(registry)

\* C10: with the type omitted and the machine in the table, getVariantNode returns
\* the node of the build-plate bucket if the name is there, else the node of the
\* nozzle bucket if the name is there, else None.
C10_FirstMatchInTypeOrder ==
    (/\ call.op = "getVariantNode"
     /\ call.variant_type = NoType
     /\ call.machine_definition_id \in DOMAIN machine_to_variant_dict_map) =>
        LET buckets == machine_to_variant_dict_map[call.machine_definition_id]
            n == call.variant_name
        IN result = IF n \in DOMAIN buckets[BUILD_PLATE] THEN buckets[BUILD_PLATE][n]
                    ELSE IF n \in DOMAIN buckets[NOZZLE] THEN buckets[NOZZLE][n]
                    ELSE None

C10_Witness ==
    /\ call.op = "getVariantNode"
    /\ call.variant_type = NoType
    /\ call.machine_definition_id \in DOMAIN machine_to_variant_dict_map
    /\ LET buckets == machine_to_variant_dict_map[call.machine_definition_id]
       IN /\ call.variant_name \in DOMAIN buckets[BUILD_PLATE]
          /\ call.variant_name \in DOMAIN buckets[NOZZLE]
          /\ result = buckets[BUILD_PLATE][call.variant_name]

====
